---- MODULE Spec2Model ----
(***************************************************************************)
(* Model of the three scripts of the repository:                           *)
(*   main.py  curve-fitting pipeline (objective, global restarts with a    *)
(*            progress callback, Nelder-Mead refinement, reporting)        *)
(*   2.py     directory tree printer (generate_tree, main)                 *)
(*   1.py     a plotting script without state of interest                  *)
(*                                                                         *)
(* Floating point values are modelled as tagged values: a finite number    *)
(* in fixed point, +infinity, -infinity or NaN, with IEEE-754 comparison   *)
(* and arithmetic.  theta, X, x and y are held in 1/SCALE units, M in      *)
(* 1/MSCALE units, the curve parameter t in whole units; sin, cos and exp  *)
(* are tabulated in 1/TRIG units on the grid the model uses.               *)
(***************************************************************************)
EXTENDS Integers, Sequences, FiniteSets, TLC

VARIABLES
    \* ---- main.py, the pipeline ----
    pc,                \* position of the script
    x_data, y_data,    \* the observations read from xy_data.csv
    run,               \* loop variable of the restart loop
    seed,              \* seed handed to the running differential_evolution
    nit,               \* generations completed by the running optimizer
    cur,               \* best vector of the running optimizer
    progress,          \* objective value per callback of the current restart
    snapshots,         \* every 10th callback vector of the current restart
    global_snapshots,  \* the snapshot lists of the completed restarts
    files,             \* results/de_progress_run{k}.csv
    best,              \* the incumbent
    loc,               \* the result of the Nelder-Mead call
    best_params,       \* results/best_params.csv
    \* ---- history of the pipeline ----
    results,           \* res of every completed restart, in order
    calls,             \* per restart, the values computed by its callbacks
    incumbent,         \* the incumbent held when the refinement started
    \* ---- objective called on its own ----
    h_pc, h_args, h_ret,
    \* ---- 2.py ----
    t_pc, fs, max_depth, show_hidden, lines

pipeVars == <<pc, x_data, y_data, run, seed, nit, cur, progress, snapshots,
              global_snapshots, files, best, loc, best_params,
              results, calls, incumbent>>
objVars  == <<h_pc, h_args, h_ret>>
treeVars == <<t_pc, fs, max_depth, show_hidden, lines>>
vars     == <<pipeVars, objVars, treeVars>>

---------------------------------------------------------------------------
(* Floating point values *)

SCALE  == 100
MSCALE == 1000
TRIG   == 1000

Fin(v) == [k |-> "fin", v |-> v]
PInf   == [k |-> "pinf", v |-> 0]
NInf   == [k |-> "ninf", v |-> 0]
NaN    == [k |-> "nan", v |-> 0]

isfinite(a) == a.k = "fin"

\* a < b; false as soon as one side is NaN
Lt(a, b) ==
    /\ a.k # "nan"
    /\ b.k # "nan"
    /\ CASE a.k = "ninf" -> b.k # "ninf"
         [] a.k = "fin"  -> \/ b.k = "pinf"
                            \/ (b.k = "fin" /\ a.v < b.v)
         [] OTHER        -> FALSE

\* a <= b; false as soon as one side is NaN
Leq(a, b) ==
    /\ a.k # "nan"
    /\ b.k # "nan"
    /\ (Lt(a, b) \/ a = b)

Neg(a) ==
    CASE a.k = "fin"  -> Fin(0 - a.v)
      [] a.k = "pinf" -> NInf
      [] a.k = "ninf" -> PInf
      [] OTHER        -> NaN

Add(a, b) ==
    CASE a.k = "nan" \/ b.k = "nan"     -> NaN
      [] a.k = "fin" /\ b.k = "fin"     -> Fin(a.v + b.v)
      [] a.k = "fin"                    -> b
      [] b.k = "fin"                    -> a
      [] a.k = b.k                      -> a
      [] OTHER                          -> NaN

Sub(a, b) == Add(a, Neg(b))

Abs(a) ==
    CASE a.k = "fin"  -> Fin(IF a.v < 0 THEN 0 - a.v ELSE a.v)
      [] a.k = "nan"  -> NaN
      [] OTHER        -> PInf

RECURSIVE Sum(_)
Sum(s) == IF s = <<>> THEN Fin(0)
          ELSE Add(Sum(SubSeq(s, 1, Len(s) - 1)), s[Len(s)])

---------------------------------------------------------------------------
(* main.py: constants *)

T_MIN       == 6
T_MAX       == 60
RANDOM_SEED == 42
MAX_ITER    == 800
N_STARTS    == 3

THETA_LO == 0
THETA_HI == 50
M_LO     == -80
M_HI     == 80
X_LO     == 0
X_HI     == 100

CLIP_LO  == -30
CLIP_HI  == 30
Y_OFFSET == 42

PRIOR_M    == 15
REG_SCALE  == 20
REG_WEIGHT == 200

SNAP_EVERY == 10

---------------------------------------------------------------------------
(* main.py: parametric_curve *)

np_sin03(t) ==
    CASE t = 6  -> 974
      [] t = 33 -> -458
      [] t = 60 -> -751

np_cos_deg(th) ==
    CASE th = 0    -> 1000
      [] th = 2500 -> 906
      [] th = 5000 -> 643

np_sin_deg(th) ==
    CASE th = 0    -> 0
      [] th = 2500 -> 423
      [] th = 5000 -> 766

np_exp(a) ==
    CASE a = -4800 -> 8
      [] a = -2640 -> 71
      [] a = -480  -> 619
      [] a = 90    -> 1094
      [] a = 480   -> 1616
      [] a = 495   -> 1640
      [] a = 900   -> 2460
      [] a = 2640  -> 14013
      [] a = 4800  -> 121510

np_clip(a, lo, hi) == IF a < lo THEN lo ELSE IF a > hi THEN hi ELSE a

\* one sample of the curve; theta_deg, M, X are finite here.  A non-finite
\* t makes sin(0.3 t) NaN, and with it both coordinates.
parametric_curve(t, theta_deg, M, X) ==
    IF ~isfinite(t) THEN <<NaN, NaN>>
    ELSE
      LET at       == IF t.v < 0 THEN 0 - t.v ELSE t.v
          exp_term == np_exp(np_clip(M.v * at, CLIP_LO * MSCALE, CLIP_HI * MSCALE))
          sin_term == np_sin03(t.v)
          es       == (exp_term * sin_term) \div TRIG
          c        == np_cos_deg(theta_deg.v)
          s        == np_sin_deg(theta_deg.v)
          x        == (t.v * c * SCALE) \div TRIG
                        - (((es * s) \div TRIG) * SCALE) \div TRIG + X.v
          y        == Y_OFFSET * SCALE + (t.v * s * SCALE) \div TRIG
                        + (((es * c) \div TRIG) * SCALE) \div TRIG
      IN <<Fin(x), Fin(y)>>

---------------------------------------------------------------------------
(* main.py: objective *)

\* the bounds check without the upper bound of X
InBox_noXhi(theta, M, X) ==
    /\ Leq(Fin(THETA_LO * SCALE), theta) /\ Leq(theta, Fin(THETA_HI * SCALE))
    /\ Leq(Fin(M_LO), M) /\ Leq(M, Fin(M_HI))
    /\ Leq(Fin(X_LO * SCALE), X)

\* 0 <= theta <= 50 and -0.08 <= M <= 0.08 and 0 <= X <= 100
InBox(theta, M, X) ==
    /\ Leq(Fin(THETA_LO * SCALE), theta) /\ Leq(theta, Fin(THETA_HI * SCALE))
    /\ Leq(Fin(M_LO), M) /\ Leq(M, Fin(M_HI))
    /\ Leq(Fin(X_LO * SCALE), X) /\ Leq(X, Fin(X_HI * SCALE))

\* position at which the pair p goes into the table s sorted by x
RECURSIVE InsertByX(_, _)
InsertByX(s, p) ==
    IF s = <<>> THEN <<p>>
    ELSE IF p[1] < s[Len(s)][1]
         THEN Append(InsertByX(SubSeq(s, 1, Len(s) - 1), p), s[Len(s)])
         ELSE Append(s, p)

\* x_pred[idx], y_pred[idx] for idx = argsort(x_pred)
RECURSIVE argsort(_)
argsort(s) ==
    IF s = <<>> THEN <<>>
    ELSE InsertByX(argsort(SubSeq(s, 1, Len(s) - 1)), s[Len(s)])

\* interp1d(x_sorted, y_sorted, bounds_error=False,
\*          fill_value=(y_sorted[0], y_sorted[-1])) applied to one x
interp(tab, x) ==
    LET n == Len(tab)
    IN  IF x.k = "nan" THEN NaN
        ELSE IF Lt(x, Fin(tab[1][1])) THEN Fin(tab[1][2])
        ELSE IF Lt(Fin(tab[n][1]), x) THEN Fin(tab[n][2])
        ELSE LET j == CHOOSE i \in 1..n :
                        /\ tab[i][1] <= x.v
                        /\ \A i2 \in 1..n : tab[i2][1] <= x.v => i2 <= i
             IN  IF j = n THEN Fin(tab[n][2])
                 ELSE Fin(tab[j][2]
                          + ((tab[j + 1][2] - tab[j][2]) * (x.v - tab[j][1]))
                              \div (tab[j + 1][1] - tab[j][1]))

\* the regularisation term 200 * ((M - 0.015) / 0.02) ** 2
reg_term(M) ==
    Fin((REG_WEIGHT * SCALE * (M.v - PRIOR_M) * (M.v - PRIOR_M))
          \div (REG_SCALE * REG_SCALE))

\* the value returned, and whether parametric_curve was called on the way;
\* USE_EUCLIDEAN is False, so err = np.sum(np.abs(dy))
objective(params, t_vals, x_obs, y_obs) ==
    LET theta == params[1]
        M     == params[2]
        X     == params[3]
    IN
    IF ~InBox(theta, M, X) THEN [val |-> PInf, curve |-> FALSE]
    ELSE
      LET pred == [i \in 1..Len(t_vals) |-> parametric_curve(t_vals[i], theta, M, X)]
      IN
      IF \E i \in 1..Len(pred) : ~isfinite(pred[i][1]) \/ ~isfinite(pred[i][2])
      THEN [val |-> PInf, curve |-> TRUE]
      ELSE
        LET tab == argsort([i \in 1..Len(pred) |-> <<pred[i][1].v, pred[i][2].v>>])
        IN
        \* y_sorted[0] of an empty table raises inside the try block
        IF Len(tab) = 0 THEN [val |-> PInf, curve |-> TRUE]
        ELSE
          LET dy  == [i \in 1..Len(x_obs) |-> Sub(interp(tab, x_obs[i]), y_obs[i])]
              err == Sum([i \in 1..Len(dy) |-> Abs(dy[i])])
          IN [val |-> Add(err, reg_term(M)), curve |-> TRUE]

\* np.linspace(a, b, n)
linspace(a, b, n) ==
    [i \in 1..n |-> Fin(IF n = 1 THEN a ELSE a + ((i - 1) * (b - a)) \div (n - 1))]

---------------------------------------------------------------------------
(* The data sets and parameter vectors the model draws from *)

\* three observations close to the curve of theta = 25, M = 0.015, X = 50
XS == <<Fin(5500), Fin(8000), Fin(10500)>>
YS == <<Fin(4560), Fin(5520), Fin(6580)>>

\* what read_csv can deliver: numbers, an empty cell (NaN), inf, no rows
Datasets ==
    { [x |-> XS, y |-> YS],
      [x |-> XS, y |-> <<Fin(4560), NaN, Fin(6580)>>],
      [x |-> <<>>, y |-> <<>>] }

ThetaGrid == {Fin(-1), Fin(0), Fin(2500), Fin(5000), Fin(5001), NaN}
MGrid     == {Fin(-81), Fin(-80), Fin(15), Fin(80), Fin(81), NaN}
XGrid     == {Fin(-1), Fin(0), Fin(5000), Fin(10000), Fin(10001), PInf}
ParamGrid == {<<th, m, x>> : th \in ThetaGrid, m \in MGrid, x \in XGrid}

T3 == linspace(T_MIN, T_MAX, 3)

ObjInputs ==
    { [t |-> T3, x |-> XS, y |-> YS],
      [t |-> T3, x |-> XS, y |-> <<Fin(4560), NaN, Fin(6580)>>],
      [t |-> T3, x |-> <<Fin(5500), NaN, Fin(10500)>>, y |-> YS],
      [t |-> T3, x |-> <<NInf, Fin(8000), PInf>>, y |-> YS],
      [t |-> T3, x |-> XS, y |-> <<Fin(4560), PInf, Fin(6580)>>],
      [t |-> <<Fin(6), PInf, Fin(60)>>, x |-> XS, y |-> YS],
      [t |-> <<>>, x |-> <<>>, y |-> <<>>] }

NoRet == [val |-> NaN, curve |-> FALSE]

---------------------------------------------------------------------------
(* objective called on its own, on any parameter vector and any data *)

ObjIdle ==
    /\ h_pc = "idle"
    /\ h_args = [params |-> <<NaN, NaN, NaN>>, t |-> <<>>, x |-> <<>>, y |-> <<>>]
    /\ h_ret = NoRet

ObjInit ==
    /\ h_pc = "ready"
    /\ \E p \in ParamGrid, d \in ObjInputs :
          h_args = [params |-> p, t |-> d.t, x |-> d.x, y |-> d.y]
    /\ h_ret = NoRet

CallObjective ==
    /\ h_pc = "ready"
    /\ h_ret' = objective(h_args.params, h_args.t, h_args.x, h_args.y)
    /\ h_pc' = "called"
    /\ UNCHANGED h_args

---------------------------------------------------------------------------
(* main.py: the pipeline *)

\* bounds of the exploration: generations explored per restart, and the
\* number of leading generations in which the optimizer's best vector moves
MaxGen    == 10
ImproveBy == 2

PA == <<Fin(2500), Fin(15), Fin(5000)>>
PB == <<Fin(0), Fin(80), Fin(0)>>
PO == <<Fin(2500), Fin(15), Fin(10001)>>

\* differential_evolution is given the bounds and stays inside the box;
\* minimize(method="Nelder-Mead") is given none
DEGrid == {PA, PB}
NMGrid == {PA, PB, PO}

NoneRes   == [some |-> FALSE, x |-> <<>>, fun |-> NaN]
Res(x, f) == [some |-> TRUE, x |-> x, fun |-> f]
NoFile    == [written |-> FALSE, rows |-> <<>>]

\* func = lambda p: objective(p, t_vals, x_data, y_data)
func(p) == objective(p, linspace(T_MIN, T_MAX, Len(x_data)), x_data, y_data).val

PipeIdle ==
    /\ pc = "idle"
    /\ x_data = <<>> /\ y_data = <<>>
    /\ run = 0 /\ seed = 0 /\ nit = 0 /\ cur = <<>>
    /\ progress = <<>> /\ snapshots = <<>> /\ global_snapshots = <<>>
    /\ files = [k \in 1..N_STARTS |-> NoFile]
    /\ best = NoneRes /\ loc = NoneRes /\ best_params = NoneRes
    /\ results = <<>>
    /\ calls = [k \in 1..N_STARTS |-> <<>>]
    /\ incumbent = NoneRes

\* lines 46-59: the data is loaded, best = None, global_snapshots = []
PipeInit ==
    /\ pc = "loop"
    /\ \E d \in Datasets : x_data = d.x /\ y_data = d.y
    /\ run = 0 /\ seed = 0 /\ nit = 0 /\ cur = <<>>
    /\ progress = <<>> /\ snapshots = <<>> /\ global_snapshots = <<>>
    /\ files = [k \in 1..N_STARTS |-> NoFile]
    /\ best = NoneRes /\ loc = NoneRes /\ best_params = NoneRes
    /\ results = <<>>
    /\ calls = [k \in 1..N_STARTS |-> <<>>]
    /\ incumbent = NoneRes

\* the seed of restart r
SeedOf(r) == RANDOM_SEED + r * 3

\* a trace list that keeps the entries of the previous restart
NewTrace_keep(old) == old

\* progress, snapshots = [], []
NewTrace(old) == <<>>

\* lines 62-64 and the entry into differential_evolution
StartRun ==
    /\ pc = "loop"
    /\ run < N_STARTS
    /\ run' = run + 1
    /\ progress' = NewTrace(progress)
    /\ snapshots' = NewTrace(snapshots)
    /\ seed' = SeedOf(run + 1)
    /\ nit' = 0
    /\ cur' = <<>>
    /\ pc' = "de"
    /\ UNCHANGED <<x_data, y_data, global_snapshots, files, best, loc,
                   best_params, results, calls, incumbent>>

\* a snapshot on every callback
SnapshotDue_always(n) == TRUE

\* len(progress) % 10 == 0
SnapshotDue(n) == n % SNAP_EVERY = 0

\* one generation of the optimizer, ending in the callback log_progress(xk);
\* the best vector of a generation is the previous one or a better one
Generation ==
    /\ pc = "de"
    /\ nit < MAX_ITER
    /\ nit < MaxGen
    /\ \E xk \in DEGrid :
         /\ \/ nit = 0
            \/ nit > 0 /\ xk = cur
            \/ nit > 0 /\ nit < ImproveBy /\ Lt(func(xk), func(cur))
         /\ cur' = xk
         /\ LET val == func(xk)
            IN  /\ progress' = Append(progress, val)
                /\ snapshots' = IF SnapshotDue(Len(progress) + 1)
                                 THEN Append(snapshots, xk)
                                 ELSE snapshots
                /\ calls' = [calls EXCEPT ![run] = Append(@, val)]
    /\ nit' = nit + 1
    /\ UNCHANGED <<pc, x_data, y_data, run, seed, global_snapshots, files,
                   best, loc, best_params, results, incumbent>>

\* an incumbent that is replaced by every restart
KeepBest_last(b, r) == r

\* if best is None or res.fun < best.fun: best = res
KeepBest(b, r) == IF ~b.some \/ Lt(r.fun, b.fun) THEN r ELSE b

\* the rows of the data frame {"iteration": arange(1, len+1), "L1": progress}
TraceRows(p) == [i \in 1..Len(p) |-> <<i, p[i]>>]

\* differential_evolution returns; lines 85-91
FinishRun ==
    /\ pc = "de"
    /\ nit >= 1
    /\ LET res == Res(cur, func(cur))
       IN  /\ best' = KeepBest(best, res)
           /\ results' = Append(results, res)
    /\ files' = [files EXCEPT ![run] = [written |-> TRUE, rows |-> TraceRows(progress)]]
    /\ global_snapshots' = Append(global_snapshots, snapshots)
    /\ pc' = "loop"
    /\ UNCHANGED <<x_data, y_data, run, seed, nit, cur, progress, snapshots,
                   loc, best_params, calls, incumbent>>

\* a refined result that is always taken
Accept_always(l, b) == TRUE

\* a refined result that is taken when it is no worse
Accept_leq(l, b) == Leq(l.fun, b.fun)

\* loc.fun < best.fun
Accept(l, b) == Lt(l.fun, b.fun)

\* lines 93-97: the Nelder-Mead call and the acceptance test
Refine ==
    /\ pc = "loop"
    /\ run = N_STARTS
    /\ \E x \in NMGrid :
         LET l == Res(x, func(x))
         IN  /\ loc' = l
             /\ best' = IF Accept(l, best) THEN l ELSE best
    /\ incumbent' = best
    /\ pc' = "report"
    /\ UNCHANGED <<x_data, y_data, run, seed, nit, cur, progress, snapshots,
                   global_snapshots, files, best_params, results, calls>>

\* lines 99-120: the result is printed, then global_snapshots[0][0] is read
Report ==
    /\ pc = "report"
    /\ pc' = IF Len(global_snapshots[1]) = 0 THEN "crashed" ELSE "plots"
    /\ UNCHANGED <<x_data, y_data, run, seed, nit, cur, progress, snapshots,
                   global_snapshots, files, best, loc, best_params,
                   results, calls, incumbent>>

\* lines 124-190: the plots, then results/best_params.csv
Save ==
    /\ pc = "plots"
    /\ files[1].written
    /\ best_params' = best
    /\ pc' = "done"
    /\ UNCHANGED <<x_data, y_data, run, seed, nit, cur, progress, snapshots,
                   global_snapshots, files, best, loc, results, calls, incumbent>>

---------------------------------------------------------------------------
(* 2.py: generate_tree and main *)

None == -1

\* largest depth the user types
MaxDepthInput == 4

\* a file system entry: its parent (0 for the start directory), the rank of
\* its lower-cased name among its siblings, whether it is a directory,
\* whether its name starts with a dot, whether listing it is refused
Entry(p, n, d, h, x) ==
    [parent |-> p, name |-> n, is_dir |-> d, hidden |-> h, denied |-> x]

\* start directory 1 holding 2 and 3; 2 holding 4 and 5; 4 holding 6.  main
\* has checked that the start directory exists and is a directory.
Trees ==
    { << Entry(0, 1, TRUE, h1, x1),
         Entry(1, 2, TRUE, h2, FALSE),
         Entry(1, 1, d3, FALSE, FALSE),
         Entry(2, 1, TRUE, FALSE, x4),
         Entry(2, 2, d5, h5, FALSE),
         Entry(4, 1, FALSE, h6, FALSE) >> :
      h1 \in BOOLEAN, x1 \in BOOLEAN, h2 \in BOOLEAN, d3 \in BOOLEAN,
      x4 \in BOOLEAN, d5 \in BOOLEAN, h5 \in BOOLEAN, h6 \in BOOLEAN }

TreeIdle ==
    /\ t_pc = "idle"
    /\ fs = <<>>
    /\ max_depth = None
    /\ show_hidden = FALSE
    /\ lines = <<>>

TreeInit ==
    /\ t_pc = "main"
    /\ fs \in Trees
    /\ max_depth = None
    /\ show_hidden = FALSE
    /\ lines = <<>>

\* list(path.iterdir())
iterdir(d) == {n \in 1..Len(fs) : fs[n].parent = d}

\* the sort key (not x.is_dir(), x.name.lower())
Before(a, b) ==
    \/ fs[a].is_dir /\ ~fs[b].is_dir
    \/ fs[a].is_dir = fs[b].is_dir /\ fs[a].name < fs[b].name

\* items.sort(key=...)
RECURSIVE sort(_)
sort(S) ==
    IF S = {} THEN <<>>
    ELSE LET m == CHOOSE a \in S : \A b \in S \ {a} : Before(a, b)
         IN  <<m>> \o sort(S \ {m})

\* a depth test that lets the entries of depth max_depth through
DepthReached_gt(md, current_depth) == md # None /\ current_depth > md

\* max_depth is not None and current_depth >= max_depth
DepthReached(md, current_depth) == md # None /\ current_depth >= md

Line(kind, node, depth, prefix, is_last) ==
    [kind |-> kind, node |-> node, depth |-> depth, prefix |-> prefix,
     last |-> is_last, dir |-> fs[node].is_dir]

RECURSIVE generate_tree(_, _, _, _, _, _)
RECURSIVE each_item(_, _, _, _, _, _)

\* the lines printed by one call, in order
generate_tree(directory, prefix, is_last, md, current_depth, sh) ==
    IF DepthReached(md, current_depth) THEN <<>>
    ELSE
      LET head == Line("entry", directory, current_depth, prefix, is_last)
      IN
      IF ~fs[directory].is_dir THEN <<head>>
      ELSE IF fs[directory].denied
      THEN <<head, Line("denied", directory, current_depth, prefix, is_last)>>
      ELSE
        LET items == sort({i \in iterdir(directory) : sh \/ ~fs[i].hidden})
        IN  <<head>> \o each_item(items, 1, Append(prefix, is_last), md,
                                  current_depth, sh)

\* the loop over enumerate(items), from position index on
each_item(items, index, new_prefix, md, current_depth, sh) ==
    IF index > Len(items) THEN <<>>
    ELSE generate_tree(items[index], new_prefix, index = Len(items), md,
                       current_depth + 1, sh)
         \o each_item(items, index + 1, new_prefix, md, current_depth, sh)

\* main, lines 94-138: the choice (0 for anything but 1-4) and the depth
\* typed (None for an input that is not all digits)
ReadOptions ==
    /\ t_pc = "main"
    /\ \E choice \in 0..4, depth_input \in {None} \cup 0..MaxDepthInput :
         /\ max_depth' = IF choice \in {2, 4} THEN depth_input ELSE None
         /\ show_hidden' = (choice \in {3, 4})
    /\ t_pc' = "options"
    /\ UNCHANGED <<fs, lines>>

\* main, lines 140-145
Display ==
    /\ t_pc = "options"
    /\ lines' = generate_tree(1, <<>>, TRUE, max_depth, 0, show_hidden)
    /\ t_pc' = "printed"
    /\ UNCHANGED <<fs, max_depth, show_hidden>>

TreeNext ==
    \/ ReadOptions /\ UNCHANGED <<pipeVars, objVars>>
    \/ Display     /\ UNCHANGED <<pipeVars, objVars>>

TreeSpecInit == PipeIdle /\ ObjIdle /\ TreeInit

TreeSpec == TreeSpecInit /\ [][TreeNext]_vars

---------------------------------------------------------------------------
(* The specifications *)

Init == PipeInit /\ ObjIdle /\ TreeIdle

Next ==
    \/ StartRun   /\ UNCHANGED <<objVars, treeVars>>
    \/ Generation /\ UNCHANGED <<objVars, treeVars>>
    \/ FinishRun  /\ UNCHANGED <<objVars, treeVars>>
    \/ Refine     /\ UNCHANGED <<objVars, treeVars>>
    \/ Report     /\ UNCHANGED <<objVars, treeVars>>
    \/ Save       /\ UNCHANGED <<objVars, treeVars>>

Spec == Init /\ [][Next]_vars

ObjNext == CallObjective /\ UNCHANGED <<pipeVars, treeVars>>

ObjSpecInit == PipeIdle /\ ObjInit /\ TreeIdle

ObjSpec == ObjSpecInit /\ [][ObjNext]_vars

---------------------------------------------------------------------------
(* The properties *)

\* a coordinate lies outside its box (NaN lies in no box)
Within(a, lo, hi) == a.k = "fin" /\ lo <= a.v /\ a.v <= hi
Inside(p) ==
    /\ Within(p[1], THETA_LO * SCALE, THETA_HI * SCALE)
    /\ Within(p[2], M_LO, M_HI)
    /\ Within(p[3], X_LO * SCALE, X_HI * SCALE)

\* the refinement stage is over
Refined == pc \in {"report", "plots", "done", "crashed"}

\* C1: for a parameter vector with a coordinate outside its box, objective
\* returns +infinity, whatever the data, and does not evaluate the curve.
C1_OutOfBoxIsInf ==
    (h_pc = "called" /\ ~Inside(h_args.params))
        => (h_ret.val = PInf /\ ~h_ret.curve)

\* objective was called with only X above its box, on data that is finite
C1_Witness ==
    /\ h_pc = "called"
    /\ h_args.params = <<Fin(2500), Fin(15), Fin(10001)>>
    /\ h_args.x = XS /\ h_args.y = YS /\ h_args.t = T3
    /\ h_ret.val = PInf

\* C2: objective returns a finite non-negative value or +infinity, never
\* anything else (no NaN, no negative value).
C2_FiniteOrInf ==
    h_pc = "called"
        => \/ h_ret.val = PInf
           \/ h_ret.val.k = "fin" /\ h_ret.val.v >= 0

\* C3: the objective value held after the refinement stage is less than or
\* equal to the value of the incumbent held before it.
C3_NeverRegresses ==
    Refined => Leq(best.fun, incumbent.fun)

\* C4: the refined result replaces the incumbent only when its value is
\* strictly lower; otherwise vector and value of the incumbent are kept.
C4_StrictAcceptance ==
    Refined =>
        /\ (best # incumbent) => (best = loc /\ Lt(loc.fun, incumbent.fun))
        /\ ~Lt(loc.fun, incumbent.fun)
              => (best.x = incumbent.x /\ best.fun = incumbent.fun)

\* the refined point and the incumbent are different vectors, both of value
\* +infinity, and the incumbent was kept
C4_Witness ==
    /\ pc = "report"
    /\ loc.fun = PInf /\ incumbent.fun = PInf
    /\ loc.x # incumbent.x
    /\ best = incumbent

\* C5: after every completed restart the incumbent is the result of one of
\* the completed restarts and its value is the minimum of their values.
C5_IncumbentIsMinimum ==
    (results # <<>> /\ ~Refined) =>
        /\ \E k \in 1..Len(results) : best = results[k]
        /\ \A k \in 1..Len(results) : Leq(best.fun, results[k].fun)

\* C6: once the data is loaded the pipeline never fails.
C6_NoError == pc # "crashed"

\* C7: the trace written for restart k holds one row per callback made
\* during restart k, in order, numbered from 1, and nothing else; the
\* snapshot list kept for restart k holds one vector per 10 of them.
C7_TraceIsolation ==
    /\ \A k \in 1..N_STARTS :
         files[k].written
            => files[k].rows = [i \in 1..Len(calls[k]) |-> <<i, calls[k][i]>>]
    /\ \A k \in 1..Len(global_snapshots) :
         Len(global_snapshots[k]) = Len(calls[k]) \div SNAP_EVERY
    /\ pc = "de" => /\ progress = calls[run]
                    /\ Len(snapshots) = Len(calls[run]) \div SNAP_EVERY

\* the second restart wrote a trace whose first two rows differ, after a
\* first restart of 10 callbacks that left a snapshot
C7_Witness ==
    /\ files[2].written
    /\ Len(files[2].rows) >= 2
    /\ files[2].rows[1][2] # files[2].rows[2][2]
    /\ Len(files[1].rows) = SNAP_EVERY
    /\ Len(global_snapshots) >= 2
    /\ Len(global_snapshots[1]) = 1

\* C9: the final parameter vector lies inside the box, although the
\* refinement is run without bounds.
C9_FinalInBox ==
    /\ Refined => Inside(best.x)
    /\ pc = "done" => Inside(best_params.x)

\* the refinement came back with a point outside the box and the record
\* was written
C9_Witness ==
    /\ pc = "done"
    /\ ~Inside(loc.x)
    /\ Inside(best_params.x)

\* depth of an entry, the start directory at 0
RECURSIVE Depth(_)
Depth(n) == IF fs[n].parent = 0 THEN 0 ELSE 1 + Depth(fs[n].parent)

\* the entry can be reached from the start directory through directories
\* that can be listed, without passing a hidden name unless hidden entries
\* are shown
RECURSIVE Reachable(_)
Reachable(n) ==
    \/ fs[n].parent = 0
    \/ /\ Reachable(fs[n].parent)
       /\ fs[fs[n].parent].is_dir
       /\ ~fs[fs[n].parent].denied
       /\ (show_hidden \/ ~fs[n].hidden)

\* the lines that print an entry
EntryLines == {i \in 1..Len(lines) : lines[i].kind = "entry"}

\* C10: with max_depth = d an entry is printed if and only if it is
\* reachable and its depth is below d; max_depth = 0 prints nothing,
\* max_depth = 1 only the start directory, max_depth = None every
\* reachable entry.
C10_DepthLimit ==
    t_pc = "printed" =>
        /\ \A n \in 1..Len(fs) :
             LET at == {i \in EntryLines : lines[i].node = n}
             IN  /\ Cardinality(at) <= 1
                 /\ (at # {}) <=> /\ Reachable(n)
                                  /\ max_depth = None \/ Depth(n) < max_depth
                 /\ \A i \in at : lines[i].depth = Depth(n)
        /\ max_depth = 0 => lines = <<>>
        /\ max_depth = 1 => \A i \in EntryLines : lines[i].node = 1

\* with max_depth = 2 the entry 4 of depth 2 is reachable and not printed,
\* while its parent of depth 1 is
C10_Witness ==
    /\ t_pc = "printed"
    /\ max_depth = 2
    /\ Reachable(4)
    /\ \E i \in EntryLines : lines[i].node = 2
    /\ \A i \in EntryLines : lines[i].node # 4

====
